---- MODULE Spec2Model ----
(***************************************************************************)
(* Model of huawei-importer (src/src/main.rs): discovery of YYYY.MM.json   *)
(* files, extraction of the per-day rows, and the dry-run report or the    *)
(* transactional INSERT ... ON CONFLICT DO NOTHING load.                   *)
(*                                                                         *)
(* Text (file names, array tokens) is a sequence of one-character strings. *)
(* An f64 is modelled as an integer number of hundredths (fixed point), so *)
(* that `{:.2}` formatting and subtraction are exact; tokens with more     *)
(* than two fraction digits, exponents, "inf" and "nan" are outside the    *)
(* token sets used here.  Years stay inside chrono's representable range.  *)
(***************************************************************************)
EXTENDS Integers, Sequences, FiniteSets, TLC

VARIABLES
    dir,        \* the data directory: file name -> file content
    dry_run,    \* Args.dry_run
    db_url,     \* Args.db_url is Some(..)
    pc,         \* position of main
    json_files, \* main's json_files
    idx,        \* 1-based position of the `for path in &json_files` loop
    last,       \* result of the latest extract_rows call (the match scrutinee)
    all_rows,   \* main's all_rows
    stderr,     \* per-file report lines written by the loop
    stdout,     \* lines printed by the dry-run report
    store,      \* committed contents of the destination table: key -> value
    txn,        \* the open transaction's working copy, or NoTxn
    inserted,   \* main's inserted counter
    contacts,   \* store round trips issued so far in this run, in order
    exit,       \* "running", "ok" (Ok(())) or "err" (Err, non-zero exit)
    store0,     \* committed contents when the current run started
    prev,       \* outcome of the previous run of the program, or "none"
    runs        \* number of the current run

vars == <<dir, dry_run, db_url, pc, json_files, idx, last, all_rows, stderr,
          stdout, store, txn, inserted, contacts, exit, store0, prev, runs>>

----------------------------------------------------------------------------
(* Bounds of the model *)

MaxFiles == 2
MaxLen == 2
MaxRuns == 2

----------------------------------------------------------------------------
(* Option values *)

None == [some |-> FALSE, v |-> 0]

Some(x) == [some |-> TRUE, v |-> x]

----------------------------------------------------------------------------
(* Characters and integer parsing (str::parse::<i32/u32/f64>) *)

DigitVal ==
    ("0" :> 0) @@ ("1" :> 1) @@ ("2" :> 2) @@ ("3" :> 3) @@ ("4" :> 4) @@
    ("5" :> 5) @@ ("6" :> 6) @@ ("7" :> 7) @@ ("8" :> 8) @@ ("9" :> 9)

DigitChar == <<"0", "1", "2", "3", "4", "5", "6", "7", "8", "9">>

\* byte values of the characters that occur in file names
CharCode ==
    ("+" :> 43) @@ ("-" :> 45) @@ ("." :> 46) @@
    ("0" :> 48) @@ ("1" :> 49) @@ ("2" :> 50) @@ ("3" :> 51) @@ ("4" :> 52) @@
    ("5" :> 53) @@ ("6" :> 54) @@ ("7" :> 55) @@ ("8" :> 56) @@ ("9" :> 57) @@
    ("a" :> 97) @@ ("b" :> 98) @@ ("c" :> 99) @@ ("e" :> 101) @@
    ("j" :> 106) @@ ("n" :> 110) @@ ("o" :> 111) @@ ("s" :> 115) @@
    ("t" :> 116) @@ ("x" :> 120)

\* i32::MAX, and the decimal digits of |i32::MIN| and u32::MAX (the model
\* checker's integers are 32-bit, so the range checks compare digit strings)
I32Max == 2147483647

I32MaxDigits == <<"2", "1", "4", "7", "4", "8", "3", "6", "4", "7">>

I32MinDigits == <<"2", "1", "4", "7", "4", "8", "3", "6", "4", "8">>

U32MaxDigits == <<"4", "2", "9", "4", "9", "6", "7", "2", "9", "5">>

Scale == 100

IsDigits(s) == \A i \in 1..Len(s) : s[i] \in DOMAIN DigitVal

RECURSIVE DigitsValue(_)
DigitsValue(s) ==
    IF s = <<>> THEN 0
    ELSE DigitsValue(SubSeq(s, 1, Len(s) - 1)) * 10 + DigitVal[s[Len(s)]]

\* the value of "-" followed by the digits s
RECURSIVE NegDigitsValue(_)
NegDigitsValue(s) ==
    IF s = <<>> THEN 0
    ELSE NegDigitsValue(SubSeq(s, 1, Len(s) - 1)) * 10 - DigitVal[s[Len(s)]]

Tail1(s) == SubSeq(s, 2, Len(s))

RECURSIVE StripZeros(_)
StripZeros(s) ==
    IF Len(s) > 1 /\ s[1] = "0" THEN StripZeros(Tail1(s)) ELSE s

\* a <= b for two digit strings without leading zeros
DecLeq(a, b) ==
    \/ Len(a) < Len(b)
    \/ /\ Len(a) = Len(b)
       /\ \A i \in 1..Len(a) :
              (\A j \in 1..(i - 1) : a[j] = b[j]) => DigitVal[a[i]] <= DigitVal[b[i]]

\* "2023".parse::<i32>(): optional sign, at least one digit, no overflow
ParseI32(s) ==
    LET signed == s # <<>> /\ s[1] \in {"+", "-"}
        neg == signed /\ s[1] = "-"
        body == IF signed THEN Tail1(s) ELSE s
    IN  IF body = <<>> \/ ~IsDigits(body) THEN None
        ELSE IF ~DecLeq(StripZeros(body), IF neg THEN I32MinDigits ELSE I32MaxDigits)
        THEN None
        ELSE Some(IF neg THEN NegDigitsValue(body) ELSE DigitsValue(body))

\* "01".parse::<u32>(): optional '+', at least one digit, no overflow; a
\* value above i32::MAX is represented by i32::MAX (only its lying outside
\* 1..12 is used)
ParseU32(s) ==
    LET signed == s # <<>> /\ s[1] = "+"
        body == IF signed THEN Tail1(s) ELSE s
    IN  IF body = <<>> \/ ~IsDigits(body) THEN None
        ELSE IF ~DecLeq(StripZeros(body), U32MaxDigits) THEN None
        ELSE IF ~DecLeq(StripZeros(body), I32MaxDigits) THEN Some(I32Max)
        ELSE Some(DigitsValue(body))

\* positions of the character c in s
Positions(s, c) == {i \in 1..Len(s) : s[i] = c}

Max(S) == CHOOSE x \in S : \A y \in S : y <= x

Min(S) == CHOOSE x \in S : \A y \in S : x <= y

\* s.parse::<f64>() on [sign] digits [ '.' digits ], in hundredths
ParseF64(s) ==
    LET signed == s # <<>> /\ s[1] \in {"+", "-"}
        body == IF signed THEN Tail1(s) ELSE s
        dots == Positions(body, ".")
        dot == IF dots = {} THEN Len(body) + 1 ELSE Min(dots)
        ip == SubSeq(body, 1, dot - 1)
        fp == SubSeq(body, dot + 1, Len(body))
        frac == IF Len(fp) = 0 THEN 0
                ELSE IF Len(fp) = 1 THEN DigitsValue(fp) * 10
                ELSE DigitsValue(fp)
        mag == DigitsValue(ip) * Scale + frac
    IN  IF Cardinality(dots) > 1 \/ ~IsDigits(ip) \/ ~IsDigits(fp) THEN None
        ELSE IF ip = <<>> /\ fp = <<>> THEN None
        ELSE IF Len(fp) > 2 THEN None
        ELSE Some(IF signed /\ s[1] = "-" THEN 0 - mag ELSE mag)

Dash == <<"-", "-">>

\* StringOrDash::as_f64
as_f64(tok) == IF tok = Dash THEN None ELSE ParseF64(tok)

----------------------------------------------------------------------------
(* File names: glob("*.json"), Path::file_stem, parse_filename, sort *)

JsonExt == <<".", "j", "s", "o", "n">>

HasSuffix(s, suf) ==
    Len(s) >= Len(suf) /\ SubSeq(s, Len(s) - Len(suf) + 1, Len(s)) = suf

\* the directory entries matched by data_dir/*.json
Glob(d) == {p \in DOMAIN d : HasSuffix(p, JsonExt)}

\* Path::file_stem: the name up to its last '.', the whole name when that
\* '.' is its first character or when it has none
file_stem(name) ==
    LET dots == Positions(name, ".")
    IN  IF dots = {} \/ Max(dots) = 1 THEN name
        ELSE SubSeq(name, 1, Max(dots) - 1)

\* stem.split('.')
RECURSIVE Split(_)
Split(s) ==
    LET dots == Positions(s, ".")
    IN  IF dots = {} THEN <<s>>
        ELSE <<SubSeq(s, 1, Min(dots) - 1)>> \o
             Split(SubSeq(s, Min(dots) + 1, Len(s)))

MonthOkUpperOnly(month) == month <= 12

\* line 73: (1..=12).contains(&month)
MonthOk(month) == month >= 1 /\ month <= 12

parse_filename(path) ==
    LET parts == Split(file_stem(path))
    IN  IF Len(parts) # 2 THEN None
        ELSE LET year == ParseI32(parts[1])
                 month == ParseU32(parts[2])
             IN  IF ~year.some THEN None
                 ELSE IF ~month.some THEN None
                 ELSE IF ~MonthOk(month.v) THEN None
                 ELSE Some(<<year.v, month.v>>)

\* byte-wise order of two file names of the same directory (PathBuf's Ord)
LexLess(a, b) ==
    \E i \in 1..(Len(a) + 1) :
        /\ \A j \in 1..(i - 1) : j <= Len(b) /\ a[j] = b[j]
        /\ i <= Len(b)
        /\ (i <= Len(a) => CharCode[a[i]] < CharCode[b[i]])

RECURSIVE SortPaths(_)
SortPaths(S) ==
    IF S = {} THEN <<>>
    ELSE LET m == CHOOSE x \in S : \A y \in S : x = y \/ LexLess(x, y)
         IN  <<m>> \o SortPaths(S \ {m})

\* main's discovery: glob, keep what parse_filename accepts, sort
Discovered(d) == SortPaths({p \in Glob(d) : parse_filename(p).some})

----------------------------------------------------------------------------
(* Calendar: NaiveDate::from_ymd_opt *)

IsLeap(y) == (y % 4 = 0 /\ y % 100 # 0) \/ y % 400 = 0

DaysInMonth(y, m) ==
    IF m = 2 THEN (IF IsLeap(y) THEN 29 ELSE 28)
    ELSE IF m \in {4, 6, 9, 11} THEN 30
    ELSE 31

from_ymd_opt(y, m, d) ==
    IF m >= 1 /\ m <= 12 /\ d >= 1 /\ d <= DaysInMonth(y, m)
    THEN Some(<<y, m, d>>)
    ELSE None

----------------------------------------------------------------------------
(* File contents and their decoding (read_to_string, serde_json::from_str) *)

\* A content is [readable, json]; a JSON value is tagged: [t |-> "invalid"]
\* (text that is not JSON), [t |-> "obj", f |-> fields], [t |-> "arr",
\* e |-> elements], [t |-> "str", s |-> characters], [t |-> "num", n |-> n].

Str(s) == [t |-> "str", s |-> s]

Arr(e) == [t |-> "arr", e |-> e]

Obj(f) == [t |-> "obj", f |-> f]

ArrayFields == {"productPower", "usePower", "selfUsePower"}

\* Vec<StringOrDash>: an array whose entries are all strings
IsStringArray(j) ==
    j.t = "arr" /\ \A i \in 1..Len(j.e) : j.e[i].t = "str"

\* HuaweiFile { data: HuaweiData { productPower, usePower, selfUsePower } }
DecodesAsHuaweiFile(j) ==
    /\ j.t = "obj"
    /\ "data" \in DOMAIN j.f
    /\ j.f["data"].t = "obj"
    /\ \A k \in ArrayFields :
           k \in DOMAIN j.f["data"].f /\ IsStringArray(j.f["data"].f[k])

Tokens(j) == [i \in 1..Len(j.e) |-> j.e[i].s]

HuaweiData(j) ==
    [product_power |-> Tokens(j.f["data"].f["productPower"]),
     use_power |-> Tokens(j.f["data"].f["usePower"]),
     self_use_power |-> Tokens(j.f["data"].f["selfUsePower"])]

----------------------------------------------------------------------------
(* extract_rows *)

Row(date, source, measurement, value) ==
    [bucket |-> date, source |-> source, measurement |-> measurement,
     value |-> value]

\* min of the three array lengths
ConsideredLen(data) ==
    Min({Len(data.product_power), Len(data.use_power),
         Len(data.self_use_power)})

DayOfIndex(i) == i

\* line 100: the day number of the 0-based index i
DayOf(i) == i + 1

DifferenceClamped(a, b) == IF a < b THEN 0 ELSE a - b

\* lines 126 and 136: the subtraction of two present values
Difference(a, b) == a - b

\* the body of `for i in 0..len` for one index i (0-based)
DayRows(year, month, data, i) ==
    LET date == from_ymd_opt(year, month, DayOf(i))
        prod == as_f64(data.product_power[i + 1])
        usage == as_f64(data.use_power[i + 1])
        self_use == as_f64(data.self_use_power[i + 1])
    IN  IF ~date.some THEN <<>>
        ELSE (IF prod.some
              THEN <<Row(date.v, "solar_meter", "accumulated_solar_energy",
                         prod.v)>>
              ELSE <<>>)
             \o
             (IF prod.some /\ self_use.some
              THEN <<Row(date.v, "energy_meter", "active_energy_exported",
                         Difference(prod.v, self_use.v))>>
              ELSE <<>>)
             \o
             (IF usage.some /\ self_use.some
              THEN <<Row(date.v, "energy_meter", "active_energy_imported",
                         Difference(usage.v, self_use.v))>>
              ELSE <<>>)

RECURSIVE RowsFrom(_, _, _, _, _)
RowsFrom(year, month, data, i, len) ==
    IF i >= len THEN <<>>
    ELSE DayRows(year, month, data, i) \o RowsFrom(year, month, data, i + 1, len)

Ok(rows) == [ok |-> TRUE, rows |-> rows, err |-> ""]

Err(msg) == [ok |-> FALSE, rows |-> <<>>, err |-> msg]

extract_rows(path, content) ==
    LET period == parse_filename(path)
    IN  IF ~period.some THEN Err("Nom de fichier invalide")
        ELSE IF ~content.readable THEN Err("Impossible de lire")
        ELSE IF ~DecodesAsHuaweiFile(content.json) THEN Err("JSON invalide")
        ELSE LET data == HuaweiData(content.json)
             IN  Ok(RowsFrom(period.v[1], period.v[2], data, 0,
                             ConsideredLen(data)))

----------------------------------------------------------------------------
(* The dry-run report: println!("{:<12} {:<15} {:<30} {:>10.2}", ...) *)

ValueWidth == 10

RECURSIVE NatDigits(_)
NatDigits(n) ==
    IF n < 10 THEN <<DigitChar[n + 1]>>
    ELSE NatDigits(n \div 10) \o <<DigitChar[(n % 10) + 1]>>

PadLeft(s, w) ==
    IF Len(s) >= w THEN s ELSE [i \in 1..(w - Len(s)) |-> " "] \o s

\* {:>10.2} of a value held in hundredths
Fmt2(v) ==
    LET a == IF v < 0 THEN 0 - v ELSE v
        digits == NatDigits(a \div Scale) \o <<".">> \o
                  <<DigitChar[((a % Scale) \div 10) + 1],
                    DigitChar[(a % 10) + 1]>>
    IN  PadLeft((IF v < 0 THEN <<"-">> ELSE <<>>) \o digits, ValueWidth)

HeaderLine == [kind |-> "header"]

RuleLine == [kind |-> "rule"]

RowLine(row) ==
    [kind |-> "row", bucket |-> row.bucket, source |-> row.source,
     measurement |-> row.measurement, value |-> Fmt2(row.value)]

ReportLines(rows) ==
    <<HeaderLine, RuleLine>> \o [i \in 1..Len(rows) |-> RowLine(rows[i])]

----------------------------------------------------------------------------
(* The destination table and the transaction *)

Key(row) == <<row.bucket, row.source, row.measurement>>

\* the table's uniqueness constraint over (bucket, source, measurement): the
\* row collides with a stored one (the table's definition is not in main.rs)
Conflicts(table, row) == \E r \in table : Key(r) = Key(row)

InsertRowOverwrite(table, row) ==
    {r \in table : Key(r) # Key(row)} \cup {row}

\* INSERT ... VALUES ($1, $2, $3, $4) ON CONFLICT DO NOTHING
InsertRow(table, row) ==
    IF Conflicts(table, row) THEN table ELSE table \cup {row}

NoTxn == [open |-> FALSE, data |-> {}]

OpenTxn(table) == [open |-> TRUE, data |-> table]

----------------------------------------------------------------------------
(* main, one action per step *)

Finish(status) ==
    /\ pc' = "done"
    /\ exit' = status

\* one store round trip and whether it succeeded
Contact(op, ok) == [op |-> op, ok |-> ok]

\* lines 148-167: glob, filter, sort, and the early return on an empty set
Discover ==
    /\ pc = "start"
    /\ json_files' = Discovered(dir)
    /\ IF json_files' = <<>>
       THEN Finish("ok")
       ELSE pc' = "loop" /\ exit' = exit
    /\ UNCHANGED <<dir, dry_run, db_url, idx, last, all_rows, stderr, stdout,
                   store, txn, inserted, contacts, store0, prev, runs>>

AccumulateReset(acc, res) == IF res.ok THEN acc \o res.rows ELSE <<>>

\* lines 173-181: the match on extract_rows' result
Accumulate(acc, res) == IF res.ok THEN acc \o res.rows ELSE acc

AfterFileFirst == "dispatch"

\* line 171: the loop goes on to the next path, or ends after the last
AfterFile == IF idx = Len(json_files) THEN "dispatch" ELSE "loop"

\* lines 171-184: one iteration of `for path in &json_files`
ProcessFile ==
    /\ pc = "loop"
    /\ idx <= Len(json_files)
    /\ LET path == json_files[idx]
           res == extract_rows(path, dir[path])
       IN  /\ last' = res
           /\ stderr' = Append(stderr, [file |-> path, ok |-> res.ok,
                                        n |-> Len(res.rows)])
           /\ all_rows' = Accumulate(all_rows, res)
    /\ idx' = idx + 1
    /\ pc' = AfterFile
    /\ UNCHANGED <<dir, dry_run, db_url, json_files, stdout, store, txn,
                   inserted, contacts, exit, store0, prev, runs>>

ReportModeIfNoUrl == dry_run /\ ~db_url

\* line 186: `if args.dry_run`
ReportMode == dry_run

\* lines 186-200: the dry-run report
Report ==
    /\ pc = "dispatch"
    /\ ReportMode
    /\ stdout' = ReportLines(all_rows)
    /\ Finish("ok")
    /\ UNCHANGED <<dir, dry_run, db_url, json_files, idx, last, all_rows,
                   stderr, store, txn, inserted, contacts, store0, prev, runs>>

HasDbUrlAssumed == TRUE

\* lines 203-206: args.db_url.as_deref().context(..)? passes
HasDbUrl == db_url

\* lines 202-217: --db-url is required, then tokio_postgres::connect
Connect ==
    /\ pc = "dispatch"
    /\ ~ReportMode
    /\ IF ~HasDbUrl
       THEN Finish("err") /\ contacts' = contacts
       ELSE \E ok \in BOOLEAN :
                /\ contacts' = Append(contacts, Contact("connect", ok))
                /\ IF ok THEN pc' = "begin" /\ exit' = exit
                   ELSE Finish("err")
    /\ UNCHANGED <<dir, dry_run, db_url, json_files, idx, last, all_rows,
                   stderr, stdout, store, txn, inserted, store0, prev, runs>>

\* lines 219-223: client.transaction()
Begin ==
    /\ pc = "begin"
    /\ \E ok \in BOOLEAN :
           /\ contacts' = Append(contacts, Contact("begin", ok))
           /\ IF ok
              THEN txn' = OpenTxn(store) /\ pc' = "prepare" /\ exit' = exit
              ELSE txn' = txn /\ Finish("err")
    /\ UNCHANGED <<dir, dry_run, db_url, json_files, idx, last, all_rows,
                   stderr, stdout, store, inserted, store0, prev, runs>>

\* lines 225-234: transaction.prepare(INSERT ...); a failure drops the
\* transaction, which rolls it back
Prepare ==
    /\ pc = "prepare"
    /\ \E ok \in BOOLEAN :
           /\ contacts' = Append(contacts, Contact("prepare", ok))
           /\ IF ok THEN txn' = txn /\ pc' = "insert" /\ exit' = exit
              ELSE txn' = NoTxn /\ Finish("err")
    /\ inserted' = 0
    /\ UNCHANGED <<dir, dry_run, db_url, json_files, idx, last, all_rows,
                   stderr, stdout, store, store0, prev, runs>>

\* lines 235-255: one iteration of `for row in &all_rows`; a failure returns
\* and drops the transaction, which rolls it back
Execute ==
    /\ pc = "insert"
    /\ inserted < Len(all_rows)
    /\ \E ok \in BOOLEAN :
           /\ contacts' = Append(contacts, Contact("execute", ok))
           /\ IF ok
              THEN /\ txn' = OpenTxn(InsertRow(txn.data, all_rows[inserted + 1]))
                   /\ inserted' = inserted + 1
                   /\ pc' = pc /\ exit' = exit
              ELSE /\ txn' = NoTxn
                   /\ inserted' = inserted
                   /\ Finish("err")
    /\ UNCHANGED <<dir, dry_run, db_url, json_files, idx, last, all_rows,
                   stderr, stdout, store, store0, prev, runs>>

OnCommitAlways(ok, table, working) == working

\* lines 257-260: what the table holds after transaction.commit()
OnCommit(ok, table, working) == IF ok THEN working ELSE table

\* lines 257-264: transaction.commit()
Commit ==
    /\ pc = "insert"
    /\ inserted = Len(all_rows)
    /\ \E ok \in BOOLEAN :
           /\ contacts' = Append(contacts, Contact("commit", ok))
           /\ store' = OnCommit(ok, store, txn.data)
           /\ Finish(IF ok THEN "ok" ELSE "err")
    /\ txn' = NoTxn
    /\ UNCHANGED <<dir, dry_run, db_url, json_files, idx, last, all_rows,
                   stderr, stdout, inserted, store0, prev, runs>>

\* the program is run again on the same directory with the same arguments
Rerun ==
    /\ pc = "done"
    /\ runs < MaxRuns
    /\ runs' = runs + 1
    /\ prev' = exit
    /\ store0' = store
    /\ pc' = "start"
    /\ exit' = "running"
    /\ json_files' = <<>>
    /\ idx' = 1
    /\ last' = Ok(<<>>)
    /\ all_rows' = <<>>
    /\ stderr' = <<>>
    /\ stdout' = <<>>
    /\ txn' = NoTxn
    /\ inserted' = 0
    /\ contacts' = <<>>
    /\ UNCHANGED <<dir, dry_run, db_url, store>>

Next ==
    \/ Discover
    \/ ProcessFile
    \/ Report
    \/ Connect
    \/ Begin
    \/ Prepare
    \/ Execute
    \/ Commit
    \/ Rerun

----------------------------------------------------------------------------
(* Inputs: file names, tokens, file contents, initial tables *)

MaxDays == 32

Y2023 == <<"2", "0", "2", "3">>

Y2024 == <<"2", "0", "2", "4">>

NameOf(y, m) == y \o <<".">> \o m \o JsonExt

Jan2023 == NameOf(Y2023, <<"0", "1">>)

Jan2023Short == NameOf(Y2023, <<"1">>)

Feb2023 == NameOf(Y2023, <<"0", "2">>)

Notes == <<"n", "o", "t", "e", "s">> \o JsonExt

\* names the filter keeps
GoodNames ==
    {Jan2023, Jan2023Short, NameOf(Y2023, <<"1", "2">>),
     NameOf(Y2024, <<"0", "2">>), NameOf(<<"+", "2", "0", "2", "3">>, <<"+", "3">>)}

\* names the filter drops: wrong token count, non-integer year or month,
\* month outside 1..12, year outside i32, not *.json
BadNames ==
    {Notes,
     NameOf(Y2023, <<"0", "1", ".", "0", "2">>),
     NameOf(<<"a", "b", "c">>, <<"0", "1">>),
     NameOf(Y2023, <<"x", "x">>),
     NameOf(Y2023, <<"-", "1">>),
     NameOf(Y2023, <<"1", "3">>),
     NameOf(Y2023, <<"0", "0">>),
     NameOf(Y2023, <<"4", "0", "0", "0", "0", "0", "0", "0", "0", "0">>),
     NameOf(<<"9", "9", "9", "9", "9", "9", "9", "9", "9", "9", "9">>, <<"0", "1">>),
     Y2023 \o <<".", "0", "1", ".", "t", "x", "t">>,
     JsonExt}

NameSet == GoodNames \cup BadNames

CalendarNames ==
    {Jan2023, Feb2023, NameOf(Y2024, <<"0", "2">>),
     NameOf(<<"1", "9", "0", "0">>, <<"2">>),
     NameOf(<<"2", "0", "0", "0">>, <<"2">>),
     NameOf(Y2023, <<"0", "4">>), NameOf(Y2023, <<"1", "1">>),
     NameOf(Y2023, <<"1", "2">>)}

PipelineNames == {Jan2023, Jan2023Short, Notes}

T10 == <<"1", "0">>

T20 == <<"2", "0">>

Tabc == <<"a", "b", "c">>

T8 == <<"8">>

T2p5 == <<"2", ".", "5">>

\* per array: the placeholder, a number, and a token that is neither (or a
\* second number)
ProdTokens == {Dash, T10, Tabc}

UseTokens == {Dash, T8, Tabc}

SelfTokens == {Dash, T20, T2p5}

StrArr(tokens) == Arr([i \in 1..Len(tokens) |-> Str(tokens[i])])

Valid(p, u, s) ==
    [readable |-> TRUE,
     json |-> Obj([data |-> Obj([productPower |-> StrArr(p),
                                 usePower |-> StrArr(u),
                                 selfUsePower |-> StrArr(s)])])]

Unreadable == [readable |-> FALSE, json |-> [t |-> "invalid"]]

Garbage == [readable |-> TRUE, json |-> [t |-> "invalid"]]

MissingArray ==
    [readable |-> TRUE,
     json |-> Obj([data |-> Obj([productPower |-> StrArr(<<T10>>),
                                 usePower |-> StrArr(<<T10>>)])])]

NumberEntry ==
    [readable |-> TRUE,
     json |-> Obj([data |-> Obj([productPower |-> Arr(<<[t |-> "num", n |-> 10]>>),
                                 usePower |-> StrArr(<<T10>>),
                                 selfUsePower |-> StrArr(<<T10>>)])])]

\* the three-day example: 10,--,5 / 8,6,4 / 2,1,3
Scenario ==
    Valid(<<T10, Dash, <<"5">>>>, <<<<"8">>, <<"6">>, <<"4">>>>,
          <<<<"2">>, <<"1">>, <<"3">>>>)

OneDay == Valid(<<T10>>, <<T20>>, <<<<"2", ".", "5">>>>)

BadToken == Valid(<<Tabc>>, <<T20>>, <<T10>>)

BrokenContents == {Unreadable, Garbage, MissingArray, NumberEntry}

PipelineContents == {Unreadable, Garbage, Scenario, OneDay}

Fill(n, tok) == [i \in 1..n |-> tok]

TokenSeqs(tokens) == UNION {[1..n -> tokens] : n \in 0..MaxLen}

\* (name, content) pairs handed to extract_rows
ExtractInputs ==
    {<<Jan2023, Valid(p, u, s)>> :
         p \in TokenSeqs(ProdTokens), u \in TokenSeqs(UseTokens),
         s \in TokenSeqs(SelfTokens)}
    \cup {<<Jan2023, c>> : c \in BrokenContents \cup {Scenario, OneDay, BadToken}}
    \cup {<<n, Valid(Fill(k, T10), Fill(k, T20), Fill(k, Dash))>> :
              n \in CalendarNames, k \in 27..MaxDays}
    \cup {<<n, Valid(Fill(k, Dash), Fill(k, T20), Fill(k, T10))>> :
              n \in CalendarNames, k \in {29, MaxDays}}

Directories(names, contents) ==
    UNION {[S -> contents] : S \in {T \in SUBSET names : Cardinality(T) <= MaxFiles}}

Preexisting == Row(<<2023, 1, 1>>, "solar_meter", "accumulated_solar_energy", 99900)

InitStores == {{}, {Preexisting}}

----------------------------------------------------------------------------
(* Specifications *)

Fresh ==
    /\ pc = "start"
    /\ json_files = <<>>
    /\ idx = 1
    /\ last = Ok(<<>>)
    /\ all_rows = <<>>
    /\ stderr = <<>>
    /\ stdout = <<>>
    /\ txn = NoTxn
    /\ inserted = 0
    /\ contacts = <<>>
    /\ exit = "running"
    /\ store0 = store
    /\ prev = "none"
    /\ runs = 1

\* the whole pipeline on small directories
Init ==
    /\ dir \in Directories(PipelineNames, PipelineContents)
    /\ dry_run \in BOOLEAN
    /\ db_url \in BOOLEAN
    /\ store \in InitStores
    /\ Fresh

Spec == Init /\ [][Next]_vars

\* the whole pipeline on directories of well-formed files with varied names
InitNames ==
    /\ \E G \in SUBSET GoodNames, B \in SUBSET BadNames :
           /\ Cardinality(G) <= MaxFiles
           /\ Cardinality(B) <= 1
           /\ dir = [p \in G \cup B |-> OneDay]
    /\ dry_run \in BOOLEAN
    /\ db_url \in BOOLEAN
    /\ store = {}
    /\ Fresh

SpecNames == InitNames /\ [][Next]_vars

\* extract_rows applied to one file: main just after discovery found it
InitExtract ==
    /\ \E in \in ExtractInputs :
           /\ dir = (in[1] :> in[2])
           /\ json_files = <<in[1]>>
    /\ dry_run = TRUE
    /\ db_url = FALSE
    /\ store = {}
    /\ pc = "loop"
    /\ idx = 1
    /\ last = Ok(<<>>)
    /\ all_rows = <<>>
    /\ stderr = <<>>
    /\ stdout = <<>>
    /\ txn = NoTxn
    /\ inserted = 0
    /\ contacts = <<>>
    /\ exit = "running"
    /\ store0 = store
    /\ prev = "none"
    /\ runs = 1

NextExtract == ProcessFile

SpecExtract == InitExtract /\ [][NextExtract]_vars

----------------------------------------------------------------------------
(* Properties of extract_rows, checked under SpecExtract *)

\* the file the loop handled last, once it has handled one
Handled == idx > 1

LastPath == json_files[idx - 1]

LastContent == dir[LastPath]

LastDecodes == LastContent.readable /\ DecodesAsHuaweiFile(LastContent.json)

LastData == HuaweiData(LastContent.json)

LastPeriod == parse_filename(LastPath).v

\* a considered entry that is neither the placeholder nor a decimal number
HasBadToken(data) ==
    \E i \in 1..ConsideredLen(data) :
        \E tok \in {data.product_power[i], data.use_power[i], data.self_use_power[i]} :
            tok # Dash /\ ~ParseF64(tok).some

\* C1: a considered entry that is neither "--" nor a decimal number makes
\* the whole file fail with a file-level error and contribute no row.
C1_BadTokenFailsFile ==
    (Handled /\ LastDecodes /\ HasBadToken(LastData))
        => (~last.ok /\ ~stderr[idx - 1].ok /\ all_rows = <<>>)

\* The calendar as a table: month lengths, and the leap years among the
\* years of CalendarNames.
MonthLengths == <<31, 28, 31, 30, 31, 30, 31, 31, 30, 31, 30, 31>>

LeapYearsOfModel == {2000, 2024}

RealDay(y, m, d) ==
    /\ d >= 1
    /\ \/ d <= MonthLengths[m]
       \/ m = 2 /\ d = 29 /\ y \in LeapYearsOfModel

Measurements ==
    <<"accumulated_solar_energy", "active_energy_exported", "active_energy_imported">>

Rank(row) == CHOOSE k \in 1..3 : Measurements[k] = row.measurement

RowsAt(rows, date, measurement) ==
    {k \in 1..Len(rows) : rows[k].bucket = date /\ rows[k].measurement = measurement}

\* rows[k] is the only row of its day and measurement, with this source and value
OnlyRow(rows, date, measurement, source, value) ==
    \E k \in 1..Len(rows) :
        /\ RowsAt(rows, date, measurement) = {k}
        /\ rows[k].source = source
        /\ rows[k].value = value

\* what one valid day must contribute, rule by rule
DayAsClaimed(rows, date, ptok, utok, stok) ==
    LET p == as_f64(ptok)
        u == as_f64(utok)
        sv == as_f64(stok)
    IN  /\ IF p.some
           THEN OnlyRow(rows, date, Measurements[1], "solar_meter", p.v)
           ELSE RowsAt(rows, date, Measurements[1]) = {}
        /\ IF p.some /\ sv.some
           THEN OnlyRow(rows, date, Measurements[2], "energy_meter", p.v - sv.v)
           ELSE RowsAt(rows, date, Measurements[2]) = {}
        /\ IF u.some /\ sv.some
           THEN OnlyRow(rows, date, Measurements[3], "energy_meter", u.v - sv.v)
           ELSE RowsAt(rows, date, Measurements[3]) = {}

\* rows come day by day and, within a day, in the order of Measurements
InDayOrder(rows) ==
    \A a, b \in 1..Len(rows) :
        a < b => \/ rows[a].bucket[3] < rows[b].bucket[3]
                 \/ /\ rows[a].bucket = rows[b].bucket
                    /\ Rank(rows[a]) < Rank(rows[b])

ScenarioRows ==
    <<Row(<<2023, 1, 1>>, "solar_meter", "accumulated_solar_energy", 1000),
      Row(<<2023, 1, 1>>, "energy_meter", "active_energy_exported", 800),
      Row(<<2023, 1, 1>>, "energy_meter", "active_energy_imported", 600),
      Row(<<2023, 1, 2>>, "energy_meter", "active_energy_imported", 500),
      Row(<<2023, 1, 3>>, "solar_meter", "accumulated_solar_energy", 500),
      Row(<<2023, 1, 3>>, "energy_meter", "active_energy_exported", 200),
      Row(<<2023, 1, 3>>, "energy_meter", "active_energy_imported", 100)>>

\* C8: for every valid day, the solar row is emitted iff produced is
\* present, the exported row (produced - self-consumed) iff produced and
\* self-consumed are, the imported row (consumed - self-consumed) iff
\* consumed and self-consumed are; each independently, in that order,
\* negative differences unchanged; the three-day example gives its 7 rows.
C8_DayRules ==
    (Handled /\ LastDecodes) =>
        /\ last.ok
        /\ \A i \in 1..ConsideredLen(LastData) :
               RealDay(LastPeriod[1], LastPeriod[2], i) =>
                   DayAsClaimed(last.rows, <<LastPeriod[1], LastPeriod[2], i>>,
                                LastData.product_power[i], LastData.use_power[i],
                                LastData.self_use_power[i])
        /\ InDayOrder(last.rows)
        /\ (LastContent = Scenario /\ LastPath = Jan2023 => last.rows = ScenarioRows)

\* a day whose exported row is negative and that has no imported row
C8_Witness ==
    /\ Handled /\ LastDecodes /\ last.ok
    /\ \E k \in 1..Len(last.rows) :
           /\ last.rows[k].measurement = "active_energy_exported"
           /\ last.rows[k].value < 0
           /\ RowsAt(last.rows, last.rows[k].bucket, "active_energy_imported") = {}
           /\ RowsAt(last.rows, last.rows[k].bucket, "accumulated_solar_energy") # {}

\* C9: every emitted row is dated on a real calendar day i+1 of the file's
\* year and month for a considered index i; an index whose day does not
\* exist gives no row and no error, and the other indices still give theirs.
C9_RealDaysOnly ==
    (Handled /\ LastDecodes) =>
        /\ last.ok
        /\ \A k \in 1..Len(last.rows) :
               /\ last.rows[k].bucket[1] = LastPeriod[1]
               /\ last.rows[k].bucket[2] = LastPeriod[2]
               /\ last.rows[k].bucket[3] \in 1..ConsideredLen(LastData)
               /\ RealDay(LastPeriod[1], LastPeriod[2], last.rows[k].bucket[3])
        /\ \A i \in 1..ConsideredLen(LastData) :
               (RealDay(LastPeriod[1], LastPeriod[2], i)
                    /\ as_f64(LastData.product_power[i]).some)
                   => RowsAt(last.rows, <<LastPeriod[1], LastPeriod[2], i>>,
                             "accumulated_solar_energy") # {}

\* February 2023 with more than 28 entries: 28 days of rows, none later
C9_Witness ==
    /\ Handled /\ LastDecodes /\ last.ok
    /\ LastPath = Feb2023
    /\ ConsideredLen(LastData) > 28
    /\ RowsAt(last.rows, <<2023, 2, 28>>, "accumulated_solar_energy") # {}
    /\ RowsAt(last.rows, <<2023, 2, 1>>, "accumulated_solar_energy") # {}

----------------------------------------------------------------------------
(* Properties of main, checked under Spec *)

Ops(op) == {i \in DOMAIN contacts : contacts[i].op = op}

Succeeded(op) == {i \in Ops(op) : contacts[i].ok}

Failed(op) == {i \in Ops(op) : ~contacts[i].ok}

\* this run's transaction was committed
Committed == Succeeded("commit") # {}

\* C2: when the execution of a row's insert or the commit fails, the table
\* is as it was before the run and the run ends with an error; the table
\* changes only by one successful commit that follows the successful insert
\* of every row.
C2_AllOrNothing ==
    /\ (Failed("execute") \cup Failed("commit") # {})
           => (store = store0 /\ pc = "done" /\ exit = "err")
    /\ (store # store0)
           => /\ Succeeded("commit") = {Len(contacts)}
              /\ Failed("execute") = {}
              /\ Cardinality(Succeeded("execute")) = Len(all_rows)
              /\ \A i \in Ops("execute") : i < Len(contacts)
              /\ pc = "done" /\ exit = "ok"

\* a row new to the table was inserted, then a later insert failed
C2_Witness ==
    /\ pc = "done" /\ exit = "err"
    /\ Failed("execute") # {}
    /\ Succeeded("execute") # {}
    /\ \A r \in store0 : Key(r) # Key(all_rows[1])
    /\ store = store0

\* C3: a second run with the same rows after a successful first run leaves
\* the table as the first run left it; a row whose key is already in the
\* table is skipped and the value stored under that key is kept.
C3_Idempotent ==
    /\ \A r \in store0 : r \in store /\ (txn.open => r \in txn.data)
    /\ \A r1, r2 \in store : Key(r1) = Key(r2) => r1 = r2
    /\ (pc = "done" /\ exit = "ok" /\ Committed /\ prev = "ok") => store = store0

\* the second run committed over a table that held one of its keys with
\* another value from the start
C3_Witness ==
    /\ runs = 2 /\ prev = "ok"
    /\ pc = "done" /\ exit = "ok" /\ Committed
    /\ Preexisting \in store
    /\ \E k \in 1..Len(all_rows) :
           Key(all_rows[k]) = Key(Preexisting) /\ all_rows[k] # Preexisting
    /\ Cardinality(store) > 1

\* C4: the store is contacted only once every file of json_files has been
\* handled, and connect, begin and commit happen at most once per run.
C4_StoreAfterParsing ==
    /\ (contacts # <<>> \/ txn.open)
           => /\ pc \notin {"start", "loop"}
              /\ idx = Len(json_files) + 1
              /\ Len(stderr) = Len(json_files)
              /\ contacts[1].op = "connect"
    /\ \A op \in {"connect", "begin", "prepare", "commit"} :
           Cardinality(Ops(op)) <= 1

\* a transaction was opened after two files, one of them in error
C4_Witness ==
    /\ Succeeded("begin") # {}
    /\ Len(json_files) >= 2
    /\ \E i \in 1..Len(stderr) : ~stderr[i].ok

FileFails(p) == ~dir[p].readable \/ ~DecodesAsHuaweiFile(dir[p].json)

\* the rows of the first k files of json_files, failing files left out
RECURSIVE RowsOfSucceeded(_)
RowsOfSucceeded(k) ==
    IF k = 0 THEN <<>>
    ELSE RowsOfSucceeded(k - 1) \o
         (IF FileFails(json_files[k]) THEN <<>>
          ELSE extract_rows(json_files[k], dir[json_files[k]]).rows)

\* C5: a file whose read or decode fails gives exactly one file-level error
\* and no row, the other files are still handled, and all_rows is the rows
\* of the files that succeeded, in the order of json_files.
C5_FileErrorsNonFatal ==
    pc # "start" =>
        /\ Len(stderr) = idx - 1
        /\ \A i \in 1..Len(stderr) :
               /\ stderr[i].file = json_files[i]
               /\ stderr[i].ok = ~FileFails(json_files[i])
               /\ FileFails(json_files[i]) => stderr[i].n = 0
        /\ all_rows = RowsOfSucceeded(idx - 1)
        /\ (pc # "loop" /\ json_files # <<>>) => idx = Len(json_files) + 1

\* a good file, then a failing one, then the loop's end with the good rows
C5_Witness ==
    /\ pc = "dispatch"
    /\ Len(json_files) = 2
    /\ stderr[1].ok /\ ~stderr[2].ok
    /\ all_rows # <<>>

RECURSIVE TrimLeft(_)
TrimLeft(s) == IF s # <<>> /\ s[1] = " " THEN TrimLeft(Tail1(s)) ELSE s

\* the report has one line per row of all_rows, in order, below its header
PrintedOnce ==
    /\ Len(stdout) = Len(all_rows) + 2
    /\ stdout[1].kind = "header" /\ stdout[2].kind = "rule"
    /\ \A k \in 1..Len(all_rows) :
           /\ stdout[k + 2].kind = "row"
           /\ stdout[k + 2].bucket = all_rows[k].bucket
           /\ stdout[k + 2].source = all_rows[k].source
           /\ stdout[k + 2].measurement = all_rows[k].measurement
           /\ Len(stdout[k + 2].value) >= ValueWidth
           /\ ParseF64(TrimLeft(stdout[k + 2].value)) = Some(all_rows[k].value)

\* C6: a dry run never contacts the store, with or without --db-url: no
\* connect, transaction, insert or commit, the table is unchanged, every
\* row of all_rows is printed once in order, and the run returns success.
C6_DryRunNoStore ==
    dry_run =>
        /\ contacts = <<>>
        /\ ~txn.open
        /\ store = store0
        /\ pc = "done" => /\ exit = "ok"
                          /\ json_files # <<>> => PrintedOnce

\* a dry run given a connection string that printed two files' rows
C6_Witness ==
    /\ dry_run /\ db_url
    /\ pc = "done"
    /\ Len(all_rows) > 7
    /\ Len(stdout) = Len(all_rows) + 2

\* C7 as stated: without --dry-run and without --db-url the run ends in an
\* error and writes nothing, whatever the directory holds.
C7_NoUrlAlwaysError ==
    (~dry_run /\ ~db_url /\ pc = "done") => (exit = "err" /\ store = store0)

\* C7 amended: without --dry-run and without --db-url the run writes nothing
\* and never contacts the store; it ends in an error when at least one file
\* passes the filename filter, and in success when none does.
C7_NoUrlErrorUnlessEmpty ==
    (~dry_run /\ ~db_url) =>
        /\ store = store0
        /\ contacts = <<>>
        /\ pc = "done" => exit = (IF json_files = <<>> THEN "ok" ELSE "err")

\* files were parsed into rows and the run then failed for want of a url
C7_Witness ==
    /\ ~dry_run /\ ~db_url
    /\ pc = "done" /\ exit = "err"
    /\ all_rows # <<>>

----------------------------------------------------------------------------
(* Properties of discovery, checked under SpecNames *)

MonthNumerals ==
    {<<"1">>, <<"2">>, <<"3">>, <<"4">>, <<"5">>, <<"6">>, <<"7">>, <<"8">>,
     <<"9">>, <<"1", "0">>, <<"1", "1">>, <<"1", "2">>}

\* an integer in i32: optional sign, digits
IsYearToken(t) ==
    \E sign \in {<<>>, <<"+">>, <<"-">>} :
        \E d \in {SubSeq(t, Len(sign) + 1, Len(t))} :
            /\ t = sign \o d
            /\ d # <<>> /\ IsDigits(d)
            /\ DecLeq(StripZeros(d),
                      IF sign = <<"-">> THEN I32MinDigits ELSE I32MaxDigits)

\* an integer in 1..12: optional '+', digits
IsMonthToken(t) ==
    \E sign \in {<<>>, <<"+">>} :
        \E d \in {SubSeq(t, Len(sign) + 1, Len(t))} :
            /\ t = sign \o d
            /\ d # <<>> /\ IsDigits(d)
            /\ StripZeros(d) \in MonthNumerals

\* <year>.<month>.json
IsPeriodName(p) ==
    /\ HasSuffix(p, JsonExt)
    /\ LET base == SubSeq(p, 1, Len(p) - Len(JsonExt))
       IN  \E k \in 1..Len(base) :
               /\ Positions(base, ".") = {k}
               /\ IsYearToken(SubSeq(base, 1, k - 1))
               /\ IsMonthToken(SubSeq(base, k + 1, Len(base)))

Range(f) == {f[i] : i \in DOMAIN f}

\* C10: json_files is exactly the <year>.<month>.json names of the
\* directory (month in 1..12), every other name is left out without an
\* error line, and the files are handled in byte order of their names.
C10_ProcessingSet ==
    pc # "start" =>
        /\ Range(json_files) = {p \in DOMAIN dir : IsPeriodName(p)}
        /\ Range(json_files) = DOMAIN dir \cap GoodNames
        /\ \A i, j \in 1..Len(json_files) :
               i < j => LexLess(json_files[i], json_files[j])
        /\ Len(stderr) = idx - 1
        /\ \A i \in 1..Len(stderr) :
               stderr[i].file = json_files[i] /\ stderr[i].ok
        /\ (pc # "loop" /\ json_files # <<>>) => idx = Len(json_files) + 1

\* two kept files handled in order beside one dropped name
C10_Witness ==
    /\ pc = "dispatch"
    /\ Len(json_files) = 2
    /\ Cardinality(DOMAIN dir) = 3
    /\ Len(stderr) = 2

====
